---- MODULE Spec2Model ----
(***************************************************************************)
(* SolanaLens analytics engine (src/src/analytics/index.ts).               *)
(*                                                                         *)
(* The engine owns a history array, a baseline TPS and a set of known     *)
(* program identifiers.  takeSnapshot awaits three fetches (Promise.all)  *)
(* and then, in one synchronous block, summarises, ranks, evaluates the   *)
(* anomaly rules and updates the state.                                    *)
(*                                                                         *)
(* JavaScript numbers that are not integers (baseline, rates, averages,   *)
(* ratios) are modelled as exact fractions <<n, d>> in lowest terms.      *)
(* Date.now() timestamps and the message strings of anomalies are not     *)
(* modelled.  A data point object carries its identity in the field ref.  *)
(***************************************************************************)
EXTENDS Integers, Sequences, FiniteSets, TLC

VARIABLES
    history,        \* this.history: sequence of HistoricalDataPoint objects
    baselineTps,    \* this.baselineTps: NULL or a fraction
    knownPrograms,  \* this.knownPrograms: set of identifiers
    allocated,      \* number of data point objects created so far
    pending,        \* per caller: the takeSnapshot call in flight and its fetches
    outcome,        \* per caller: what its last takeSnapshot call returned or threw
    held,           \* the array a caller got from getHistory (object references)
    flagged         \* per identifier: new_program_detected anomalies returned so far

vars == <<history, baselineTps, knownPrograms, allocated, pending, outcome, held, flagged>>

engine == <<history, baselineTps, knownPrograms>>

----------------------------------------------------------------------------
(* Numbers *)

NULL == <<>>

RECURSIVE GCD(_, _)
GCD(a, b) == IF b = 0 THEN a ELSE GCD(b, a % b)

\* the number n / d (n >= 0, d > 0)
Rat(n, d) == LET g == GCD(n, d) IN <<n \div g, d \div g>>

Num(n) == <<n, 1>>

RatLt(x, y) == x[1] * y[2] < y[1] * x[2]

RatGt(x, y) == RatLt(y, x)

RatAdd(x, y) == Rat(x[1] * y[2] + y[1] * x[2], x[2] * y[2])

RatMul(x, y) == Rat(x[1] * y[1], x[2] * y[2])

\* x / y for y > 0
RatDiv(x, y) == Rat(x[1] * y[2], x[2] * y[1])

Max(a, b) == IF a >= b THEN a ELSE b

Min(a, b) == IF a <= b THEN a ELSE b

----------------------------------------------------------------------------
(* Map<string, number> in insertion order: a sequence of [id, count] with  *)
(* distinct ids.                                                           *)

Keys(pc) == {pc[i].id : i \in DOMAIN pc}

Has(pc, id) == id \in Keys(pc)

\* programCounts.get(id) ?? 0
GetOrZero(pc, id) ==
    IF Has(pc, id) THEN (CHOOSE e \in {pc[i] : i \in DOMAIN pc} : e.id = id).count
    ELSE 0

\* programCounts.set(id, n): replaces in place, or appends a new key
MapSet(pc, id, n) ==
    IF Has(pc, id)
    THEN [i \in DOMAIN pc |-> IF pc[i].id = id THEN [id |-> id, count |-> n] ELSE pc[i]]
    ELSE Append(pc, [id |-> id, count |-> n])

RECURSIVE SumCounts(_)
SumCounts(pc) ==
    IF pc = <<>> THEN 0 ELSE pc[1].count + SumCounts(Tail(pc))

----------------------------------------------------------------------------
(* Label directory (src/src/solana/programs.ts) *)

SystemProgram == "11111111111111111111111111111111"

KNOWN_PROGRAMS == {SystemProgram}

\* identifiers of the model other than SystemProgram are at most 11 characters
\* long, for which shortenAddress returns the address itself
shortenAddress(address) == address

getProgramLabel(programId) ==
    IF programId \in KNOWN_PROGRAMS THEN "System Program" ELSE shortenAddress(programId)

categorizeProgram(programId) ==
    IF programId = SystemProgram THEN "Core" ELSE "Other"

----------------------------------------------------------------------------
(* Snapshot aggregator and ranking (pure) *)

RECURSIVE SumTx(_)
SumTx(blocks) ==
    IF blocks = <<>> THEN 0 ELSE blocks[1].numTransactions + SumTx(Tail(blocks))

RECURSIVE SumSuccess(_)
SumSuccess(blocks) ==
    IF blocks = <<>> THEN 0 ELSE blocks[1].numSuccessful + SumSuccess(Tail(blocks))

\* faulty variants of summarizeBlocks: the success rate as the mean of the
\* per-block rates; no early return for an empty batch, so that the average is
\* 0 / 0, written <<0, 0>>
RECURSIVE SumRates(_)
SumRates(blocks) ==
    IF blocks = <<>> THEN Num(0)
    ELSE RatAdd(IF blocks[1].numTransactions > 0
                THEN Rat(blocks[1].numSuccessful * 100, blocks[1].numTransactions)
                ELSE Num(0),
                SumRates(Tail(blocks)))

summarizeBlocks_PerBlockRate(blocks) ==
    IF Len(blocks) = 0
    THEN [blocksAnalyzed |-> 0, totalTransactions |-> 0, successRate |-> Num(0),
          avgTxPerBlock |-> Num(0), avgFeePerTx |-> Num(0)]
    ELSE LET totalTx == SumTx(blocks)
         IN  [blocksAnalyzed |-> Len(blocks),
              totalTransactions |-> totalTx,
              successRate |-> RatDiv(SumRates(blocks), Num(Len(blocks))),
              avgTxPerBlock |-> Rat(totalTx, Len(blocks)),
              avgFeePerTx |-> Num(0)]

summarizeBlocks_NoEmptyGuard(blocks) ==
    LET totalTx == SumTx(blocks)
        totalSuccess == SumSuccess(blocks)
    IN  [blocksAnalyzed |-> Len(blocks),
         totalTransactions |-> totalTx,
         successRate |-> IF totalTx > 0 THEN Rat(totalSuccess * 100, totalTx)
                         ELSE Num(0),
         avgTxPerBlock |-> IF Len(blocks) = 0 THEN <<0, 0>>
                           ELSE Rat(totalTx, Len(blocks)),
         avgFeePerTx |-> Num(0)]

summarizeBlocks(blocks) ==
    IF Len(blocks) = 0
    THEN [blocksAnalyzed |-> 0, totalTransactions |-> 0, successRate |-> Num(0),
          avgTxPerBlock |-> Num(0), avgFeePerTx |-> Num(0)]
    ELSE LET totalTx == SumTx(blocks)
             totalSuccess == SumSuccess(blocks)
         IN  [blocksAnalyzed |-> Len(blocks),
              totalTransactions |-> totalTx,
              successRate |-> IF totalTx > 0 THEN Rat(totalSuccess * 100, totalTx)
                              ELSE Num(0),
              avgTxPerBlock |-> Rat(totalTx, Len(blocks)),
              avgFeePerTx |-> Num(0)]

TopN == 20

\* Array.prototype.sort with (a, b) => b.invocationCount - a.invocationCount:
\* descending by count, stable, so equal counts keep their input order
InsertDesc(sorted, e) ==
    LET before == SelectSeq(sorted, LAMBDA x : x.invocationCount >= e.invocationCount)
        after == SelectSeq(sorted, LAMBDA x : x.invocationCount < e.invocationCount)
    IN  before \o <<e>> \o after

RECURSIVE SortDesc(_)
SortDesc(s) ==
    IF s = <<>> THEN <<>>
    ELSE InsertDesc(SortDesc(SubSeq(s, 1, Len(s) - 1)), s[Len(s)])

\* faulty variants of rankPrograms: the share rounded down to a whole percent;
\* the first 20 entries of the map taken before sorting
rankPrograms_FlooredShare(programCounts) ==
    LET total == SumCounts(programCounts)
        mapped == [i \in DOMAIN programCounts |->
                     [programId |-> programCounts[i].id,
                      label |-> getProgramLabel(programCounts[i].id),
                      category |-> categorizeProgram(programCounts[i].id),
                      invocationCount |-> programCounts[i].count,
                      share |-> IF total > 0
                                THEN Num((programCounts[i].count * 100) \div total)
                                ELSE Num(0)]]
        sorted == SortDesc(mapped)
    IN  SubSeq(sorted, 1, Min(TopN, Len(sorted)))

rankPrograms_SliceFirst(programCounts) ==
    LET total == SumCounts(programCounts)
        mapped == [i \in DOMAIN programCounts |->
                     [programId |-> programCounts[i].id,
                      label |-> getProgramLabel(programCounts[i].id),
                      category |-> categorizeProgram(programCounts[i].id),
                      invocationCount |-> programCounts[i].count,
                      share |-> IF total > 0
                                THEN Rat(programCounts[i].count * 100, total)
                                ELSE Num(0)]]
    IN  SortDesc(SubSeq(mapped, 1, Min(TopN, Len(mapped))))

rankPrograms(programCounts) ==
    LET total == SumCounts(programCounts)
        mapped == [i \in DOMAIN programCounts |->
                     [programId |-> programCounts[i].id,
                      label |-> getProgramLabel(programCounts[i].id),
                      category |-> categorizeProgram(programCounts[i].id),
                      invocationCount |-> programCounts[i].count,
                      share |-> IF total > 0
                                THEN Rat(programCounts[i].count * 100, total)
                                ELSE Num(0)]]
        sorted == SortDesc(mapped)
    IN  SubSeq(sorted, 1, Min(TopN, Len(sorted)))

----------------------------------------------------------------------------
(* Anomaly rule set.  An anomaly is [type, severity, data]; the rules read *)
(* the engine state as it is when detectAnomalies runs.                    *)

\* a faulty variant of HighFailureRate: no minimum number of transactions
HighFailureRate_NoVolumeGuard(blockSummary) ==
    IF RatLt(blockSummary.successRate, Num(80))
    THEN <<[type |-> "high_failure_rate",
            severity |-> IF RatLt(blockSummary.successRate, Num(50))
                         THEN "high" ELSE "medium",
            data |-> [successRate |-> blockSummary.successRate,
                      totalTransactions |-> blockSummary.totalTransactions]]>>
    ELSE <<>>

HighFailureRate(blockSummary) ==
    IF RatLt(blockSummary.successRate, Num(80)) /\ blockSummary.totalTransactions > 10
    THEN <<[type |-> "high_failure_rate",
            severity |-> IF RatLt(blockSummary.successRate, Num(50))
                         THEN "high" ELSE "medium",
            data |-> [successRate |-> blockSummary.successRate,
                      totalTransactions |-> blockSummary.totalTransactions]]>>
    ELSE <<>>

\* faulty variants of TpsAnomalies: a spike already at ratio 2; a drop reported
\* for a throughput of 0
TpsAnomalies_SpikeAtTwo(stats) ==
    IF baselineTps # NULL /\ RatGt(baselineTps, Num(0))
    THEN LET tpsRatio == RatDiv(Num(stats.tps), baselineTps)
             data == [currentTps |-> stats.tps, baselineTps |-> baselineTps,
                      ratio |-> tpsRatio]
         IN  IF ~RatLt(tpsRatio, Num(2))
             THEN <<[type |-> "tps_spike",
                     severity |-> IF RatGt(tpsRatio, Num(3)) THEN "high" ELSE "medium",
                     data |-> data]>>
             ELSE IF RatLt(tpsRatio, Rat(3, 10)) /\ stats.tps > 0
             THEN <<[type |-> "tps_drop",
                     severity |-> IF RatLt(tpsRatio, Rat(1, 10))
                                  THEN "high" ELSE "medium",
                     data |-> data]>>
             ELSE <<>>
    ELSE <<>>

TpsAnomalies_DropAtZero(stats) ==
    IF baselineTps # NULL /\ RatGt(baselineTps, Num(0))
    THEN LET tpsRatio == RatDiv(Num(stats.tps), baselineTps)
             data == [currentTps |-> stats.tps, baselineTps |-> baselineTps,
                      ratio |-> tpsRatio]
         IN  IF RatGt(tpsRatio, Num(2))
             THEN <<[type |-> "tps_spike",
                     severity |-> IF RatGt(tpsRatio, Num(3)) THEN "high" ELSE "medium",
                     data |-> data]>>
             ELSE IF RatLt(tpsRatio, Rat(3, 10))
             THEN <<[type |-> "tps_drop",
                     severity |-> IF RatLt(tpsRatio, Rat(1, 10))
                                  THEN "high" ELSE "medium",
                     data |-> data]>>
             ELSE <<>>
    ELSE <<>>

TpsAnomalies(stats) ==
    IF baselineTps # NULL /\ RatGt(baselineTps, Num(0))
    THEN LET tpsRatio == RatDiv(Num(stats.tps), baselineTps)
             data == [currentTps |-> stats.tps, baselineTps |-> baselineTps,
                      ratio |-> tpsRatio]
         IN  IF RatGt(tpsRatio, Num(2))
             THEN <<[type |-> "tps_spike",
                     severity |-> IF RatGt(tpsRatio, Num(3)) THEN "high" ELSE "medium",
                     data |-> data]>>
             ELSE IF RatLt(tpsRatio, Rat(3, 10)) /\ stats.tps > 0
             THEN <<[type |-> "tps_drop",
                     severity |-> IF RatLt(tpsRatio, Rat(1, 10))
                                  THEN "high" ELSE "medium",
                     data |-> data]>>
             ELSE <<>>
    ELSE <<>>

LargeBlock(blockSummary) ==
    IF RatGt(blockSummary.avgTxPerBlock, Num(2000))
    THEN <<[type |-> "large_block",
            severity |-> IF RatGt(blockSummary.avgTxPerBlock, Num(5000))
                         THEN "high" ELSE "low",
            data |-> [avgTxPerBlock |-> blockSummary.avgTxPerBlock]]>>
    ELSE <<>>

\* a faulty variant of EmptyBlock: reported also when no block was analyzed
EmptyBlock_NoGuard(blockSummary) ==
    IF RatLt(blockSummary.avgTxPerBlock, Num(5))
    THEN <<[type |-> "empty_block", severity |-> "medium",
            data |-> [avgTxPerBlock |-> blockSummary.avgTxPerBlock]]>>
    ELSE <<>>

EmptyBlock(blockSummary) ==
    IF RatLt(blockSummary.avgTxPerBlock, Num(5)) /\ blockSummary.blocksAnalyzed > 0
    THEN <<[type |-> "empty_block", severity |-> "medium",
            data |-> [avgTxPerBlock |-> blockSummary.avgTxPerBlock]]>>
    ELSE <<>>

\* this.history.slice(-5)
LastFive(h) == SubSeq(h, Max(1, Len(h) - 4), Len(h))

\* a faulty variant of NewPrograms: only the last five history entries are
\* consulted, not the set of identifiers ever seen
NewPrograms_RecentOnly(programCounts) ==
    IF Len(history) > 3
    THEN LET recent == LastFive(history)
             previousPrograms == UNION {Keys(recent[i].programCounts) : i \in DOMAIN recent}
             fresh == SelectSeq(programCounts, LAMBDA e : e.id \notin previousPrograms)
         IN  [i \in DOMAIN fresh |->
                [type |-> "new_program_detected", severity |-> "low",
                 data |-> [programId |-> fresh[i].id, invocations |-> fresh[i].count]]]
    ELSE <<>>

\* a faulty variant of NewPrograms: the loop stops at the first new identifier
NewPrograms_Capped(programCounts) ==
    IF Len(history) > 3
    THEN LET recent == LastFive(history)
             previousPrograms == UNION {Keys(recent[i].programCounts) : i \in DOMAIN recent}
             fresh == SelectSeq(programCounts,
                        LAMBDA e : e.id \notin previousPrograms /\ e.id \notin knownPrograms)
         IN  [i \in DOMAIN SubSeq(fresh, 1, Min(1, Len(fresh))) |->
                [type |-> "new_program_detected", severity |-> "low",
                 data |-> [programId |-> fresh[i].id, invocations |-> fresh[i].count]]]
    ELSE <<>>

NewPrograms(programCounts) ==
    IF Len(history) > 3
    THEN LET recent == LastFive(history)
             previousPrograms == UNION {Keys(recent[i].programCounts) : i \in DOMAIN recent}
             fresh == SelectSeq(programCounts,
                        LAMBDA e : e.id \notin previousPrograms /\ e.id \notin knownPrograms)
         IN  [i \in DOMAIN fresh |->
                [type |-> "new_program_detected", severity |-> "low",
                 data |-> [programId |-> fresh[i].id, invocations |-> fresh[i].count]]]
    ELSE <<>>

\* a faulty variant of ProgramSurges: the previous count is not required to
\* exceed 5
ProgramSurges_NoFloor(programCounts) ==
    IF Len(history) > 2
    THEN LET lastSnapshot == history[Len(history)]
             prevCount(e) == GetOrZero(lastSnapshot.programCounts, e.id)
             surging == SelectSeq(programCounts, LAMBDA e : e.count > prevCount(e) * 3)
         IN  [i \in DOMAIN surging |->
                [type |-> "program_surge",
                 severity |-> IF surging[i].count > prevCount(surging[i]) * 10
                              THEN "high" ELSE "medium",
                 data |-> [programId |-> surging[i].id,
                           previousCount |-> prevCount(surging[i]),
                           currentCount |-> surging[i].count]]]
    ELSE <<>>

ProgramSurges(programCounts) ==
    IF Len(history) > 2
    THEN LET lastSnapshot == history[Len(history)]
             prevCount(e) == GetOrZero(lastSnapshot.programCounts, e.id)
             surging == SelectSeq(programCounts,
                          LAMBDA e : prevCount(e) > 5 /\ e.count > prevCount(e) * 3)
         IN  [i \in DOMAIN surging |->
                [type |-> "program_surge",
                 severity |-> IF surging[i].count > prevCount(surging[i]) * 10
                              THEN "high" ELSE "medium",
                 data |-> [programId |-> surging[i].id,
                           previousCount |-> prevCount(surging[i]),
                           currentCount |-> surging[i].count]]]
    ELSE <<>>

\* a faulty variant of detectAnomalies: it returns as soon as the failure-rate
\* rule has fired
detectAnomalies_ShortCircuit(stats, blockSummary, topPrograms, programCounts) ==
    IF HighFailureRate(blockSummary) # <<>>
    THEN HighFailureRate(blockSummary)
    ELSE TpsAnomalies(stats)
           \o LargeBlock(blockSummary)
           \o EmptyBlock(blockSummary)
           \o NewPrograms(programCounts)
           \o ProgramSurges(programCounts)

detectAnomalies(stats, blockSummary, topPrograms, programCounts) ==
    HighFailureRate(blockSummary)
      \o TpsAnomalies(stats)
      \o LargeBlock(blockSummary)
      \o EmptyBlock(blockSummary)
      \o NewPrograms(programCounts)
      \o ProgramSurges(programCounts)

----------------------------------------------------------------------------
(* State update of takeSnapshot *)

maxHistoryLength == 100

\* faulty variants of pushHistory: no eviction; eviction of the newest entry
pushHistory_NoShift(h, dp) == Append(h, dp)

pushHistory_Pop(h, dp) ==
    LET pushed == Append(h, dp)
    IN  IF Len(pushed) > maxHistoryLength THEN SubSeq(pushed, 1, Len(pushed) - 1)
        ELSE pushed

\* a faulty variant of pushHistory: the new entry is put first and the last
\* entry is evicted
pushHistory_Unshift(h, dp) ==
    LET pushed == <<dp>> \o h
    IN  IF Len(pushed) > maxHistoryLength THEN SubSeq(pushed, 1, Len(pushed) - 1)
        ELSE pushed

\* this.history.push(dp); if (length > maxHistoryLength) this.history.shift()
pushHistory(h, dp) ==
    LET pushed == Append(h, dp)
    IN  IF Len(pushed) > maxHistoryLength THEN Tail(pushed) ELSE pushed

\* faulty variants of updateBaseline: the first sample never initialises the
\* baseline; the first sample is smoothed as if the baseline were 0; the
\* weights are swapped; the observed value is left out
updateBaseline_NoInit(b, tps) ==
    IF b = NULL THEN NULL
    ELSE RatAdd(RatMul(b, Rat(9, 10)), RatMul(Num(tps), Rat(1, 10)))

updateBaseline_SmoothFirst(b, tps) ==
    IF b = NULL THEN RatMul(Num(tps), Rat(1, 10))
    ELSE RatAdd(RatMul(b, Rat(9, 10)), RatMul(Num(tps), Rat(1, 10)))

updateBaseline_Swapped(b, tps) ==
    IF b = NULL THEN Num(tps)
    ELSE RatAdd(RatMul(b, Rat(1, 10)), RatMul(Num(tps), Rat(9, 10)))

updateBaseline_Stuck(b, tps) ==
    IF b = NULL THEN Num(tps)
    ELSE RatAdd(RatMul(b, Rat(9, 10)), RatMul(b, Rat(1, 10)))

\* the moving average of the baseline
updateBaseline(b, tps) ==
    IF b = NULL THEN Num(tps)
    ELSE RatAdd(RatMul(b, Rat(9, 10)), RatMul(Num(tps), Rat(1, 10)))

\* a faulty variant of trackKnown: only the first identifier is recorded
trackKnown_FirstOnly(known, programCounts) ==
    IF programCounts = <<>> THEN known ELSE known \cup {programCounts[1].id}

\* a faulty variant of trackKnown: the set is replaced by this round's
\* identifiers
trackKnown_Replaced(known, programCounts) == Keys(programCounts)

\* for (const programId of programCounts.keys()) this.knownPrograms.add(programId)
trackKnown(known, programCounts) == known \cup Keys(programCounts)

getHistory == [i \in DOMAIN history |-> history[i]]

getBaselineTps == baselineTps

----------------------------------------------------------------------------
(* Callers, fetches and inputs *)

AllCallers == {"c1", "c2"}

Identifiers == {"X", "Y", SystemProgram}

Fetches == {"getNetworkStats", "getRecentBlockProduction", "getTopProgramsFromRecentBlocks"}

\* a fetch of a call: <<>> while pending, <<v>> once resolved with v,
\* <<"rejected", f>> once it threw
\* overlaps observes, for the latest call of a caller, the callers whose own
\* latest call was already pending when it started
Idle == [active |-> FALSE, fetch |-> [f \in Fetches |-> <<>>], overlaps |-> {}]

Resolved(slot) == Len(slot) = 1

Rejected(slot) == Len(slot) = 2

Block(numTx, numOk) == [numTransactions |-> numTx, numSuccessful |-> numOk]

Entry(id, n) == [id |-> id, count |-> n]

\* how many takeSnapshot calls may succeed in a run
MaxSnapshots == 3

Callers == {"c1"}

StatsInputs == {[tps |-> 50], [tps |-> 100], [tps |-> 200]}

BlockInputs == { <<Block(50, 20)>>, <<Block(30, 30), Block(12, 11)>> }

CountInputs == { <<Entry("X", 10)>>, <<Entry("Y", 7), Entry("X", 35)>> }

----------------------------------------------------------------------------
(* takeSnapshot *)

\* lines 83-88: the three fetches are issued and the call awaits Promise.all
TakeSnapshotStart(c, max) ==
    /\ ~pending[c].active
    /\ allocated < max
    /\ pending' = [d \in AllCallers |->
                      IF d = c
                      THEN [Idle EXCEPT !.active = TRUE,
                                        !.overlaps = {e \in AllCallers : pending[e].active}]
                      ELSE [pending[d] EXCEPT !.overlaps = @ \ {c}]]
    /\ outcome' = [outcome EXCEPT ![c] = [status |-> "pending"]]
    /\ UNCHANGED <<history, baselineTps, knownPrograms, allocated, held, flagged>>

\* a fetch resolves with what the data source returned
StatsResolves(c, stats) ==
    /\ pending[c].active
    /\ pending[c].fetch["getNetworkStats"] = <<>>
    /\ pending' = [pending EXCEPT ![c].fetch["getNetworkStats"] = <<stats>>]
    /\ UNCHANGED <<history, baselineTps, knownPrograms, allocated, outcome, held, flagged>>

BlocksResolve(c, blocks) ==
    /\ pending[c].active
    /\ pending[c].fetch["getRecentBlockProduction"] = <<>>
    /\ pending' = [pending EXCEPT ![c].fetch["getRecentBlockProduction"] = <<blocks>>]
    /\ UNCHANGED <<history, baselineTps, knownPrograms, allocated, outcome, held, flagged>>

CountsResolve(c, programCounts) ==
    /\ pending[c].active
    /\ pending[c].fetch["getTopProgramsFromRecentBlocks"] = <<>>
    /\ pending' = [pending EXCEPT ![c].fetch["getTopProgramsFromRecentBlocks"] = <<programCounts>>]
    /\ UNCHANGED <<history, baselineTps, knownPrograms, allocated, outcome, held, flagged>>

\* what the caller of a takeSnapshot whose fetch f threw gets
Rejection(f) == [status |-> "err", error |-> f]

\* a faulty variant of FetchRejects: the error is swallowed and the call goes on
FetchRejects_Swallowed(c, f) ==
    /\ pending[c].active
    /\ pending[c].fetch[f] = <<>>
    /\ pending' = [pending EXCEPT ![c].fetch[f] = <<"rejected", f>>]
    /\ UNCHANGED <<history, baselineTps, knownPrograms, allocated, outcome, held, flagged>>

\* a faulty variant of FetchRejects: the throughput that had already been
\* fetched goes into the baseline although the call fails
FetchRejects_BaselineUpdated(c, f) ==
    /\ pending[c].active
    /\ pending[c].fetch[f] = <<>>
    /\ pending' = [pending EXCEPT ![c].active = FALSE,
                                  ![c].fetch[f] = <<"rejected", f>>]
    /\ outcome' = [outcome EXCEPT ![c] = Rejection(f)]
    /\ baselineTps' = IF Resolved(pending[c].fetch["getNetworkStats"])
                      THEN updateBaseline(baselineTps, pending[c].fetch["getNetworkStats"][1].tps)
                      ELSE baselineTps
    /\ UNCHANGED <<history, knownPrograms, allocated, held, flagged>>

\* a fetch that has not resolved throws: Promise.all rejects with its error, the
\* await at line 84 throws and the rest of takeSnapshot is not run
FetchRejects(c, f) ==
    /\ pending[c].active
    /\ pending[c].fetch[f] = <<>>
    /\ pending' = [pending EXCEPT ![c].active = FALSE,
                                  ![c].fetch[f] = <<"rejected", f>>]
    /\ outcome' = [outcome EXCEPT ![c] = Rejection(f)]
    /\ UNCHANGED <<history, baselineTps, knownPrograms, allocated, held, flagged>>

NewProgramIds(anomalies) ==
    {anomalies[i].data.programId :
        i \in {j \in DOMAIN anomalies : anomalies[j].type = "new_program_detected"}}

\* a faulty variant of TakeSnapshotFinish: the state update of lines 94-116 is
\* made first and the rules are evaluated on the updated state
TakeSnapshotFinish_UpdateFirst(c) ==
    /\ pending[c].active
    /\ \A f \in Fetches : Resolved(pending[c].fetch[f])
    /\ pending' = [pending EXCEPT ![c].active = FALSE]
    /\ LET stats == pending[c].fetch["getNetworkStats"][1]
           blocks == pending[c].fetch["getRecentBlockProduction"][1]
           programCounts == pending[c].fetch["getTopProgramsFromRecentBlocks"][1]
           blockSummary == summarizeBlocks(blocks)
           topPrograms == rankPrograms(programCounts)
           dp == [ref |-> allocated + 1,
                  tps |-> stats.tps,
                  txCount |-> blockSummary.totalTransactions,
                  successRate |-> blockSummary.successRate,
                  programCounts |-> programCounts]
       IN  /\ history' = pushHistory(history, dp)
           /\ baselineTps' = updateBaseline(baselineTps, stats.tps)
           /\ knownPrograms' = trackKnown(knownPrograms, programCounts)
           /\ allocated' = allocated + 1
           /\ LET anomalies ==
                    detectAnomalies(stats, blockSummary, topPrograms, programCounts)'
              IN  /\ outcome' = [outcome EXCEPT ![c] =
                                   [status |-> "ok",
                                    snapshot |-> [stats |-> stats,
                                                  topPrograms |-> topPrograms,
                                                  blockSummary |-> blockSummary,
                                                  anomalies |-> anomalies]]]
                  /\ flagged' = [id \in Identifiers |->
                                   IF id \in NewProgramIds(anomalies)
                                   THEN flagged[id] + 1 ELSE flagged[id]]
    /\ UNCHANGED held

\* lines 90-124, run in one piece once all three fetches have resolved
TakeSnapshotFinish(c) ==
    /\ pending[c].active
    /\ \A f \in Fetches : Resolved(pending[c].fetch[f])
    /\ LET stats == pending[c].fetch["getNetworkStats"][1]
           blocks == pending[c].fetch["getRecentBlockProduction"][1]
           programCounts == pending[c].fetch["getTopProgramsFromRecentBlocks"][1]
           blockSummary == summarizeBlocks(blocks)
           topPrograms == rankPrograms(programCounts)
           anomalies == detectAnomalies(stats, blockSummary, topPrograms, programCounts)
           dp == [ref |-> allocated + 1,
                  tps |-> stats.tps,
                  txCount |-> blockSummary.totalTransactions,
                  successRate |-> blockSummary.successRate,
                  programCounts |-> programCounts]
       IN  /\ history' = pushHistory(history, dp)
           /\ baselineTps' = updateBaseline(baselineTps, stats.tps)
           /\ knownPrograms' = trackKnown(knownPrograms, programCounts)
           /\ allocated' = allocated + 1
           /\ outcome' = [outcome EXCEPT ![c] =
                            [status |-> "ok",
                             snapshot |-> [stats |-> stats,
                                           topPrograms |-> topPrograms,
                                           blockSummary |-> blockSummary,
                                           anomalies |-> anomalies]]]
           /\ flagged' = [id \in Identifiers |->
                            IF id \in NewProgramIds(anomalies)
                            THEN flagged[id] + 1 ELSE flagged[id]]
    /\ pending' = [pending EXCEPT ![c].active = FALSE]
    /\ UNCHANGED held

----------------------------------------------------------------------------
(* The engine driven by one caller at a time *)

Init ==
    /\ history = <<>>
    /\ baselineTps = NULL
    /\ knownPrograms = {}
    /\ allocated = 0
    /\ pending = [c \in AllCallers |-> Idle]
    /\ outcome = [c \in AllCallers |-> [status |-> "none"]]
    /\ held = <<>>
    /\ flagged = [id \in Identifiers |-> 0]

Next ==
    \E c \in Callers :
        \/ TakeSnapshotStart(c, MaxSnapshots)
        \/ \E stats \in StatsInputs : StatsResolves(c, stats)
        \/ \E blocks \in BlockInputs : BlocksResolve(c, blocks)
        \/ \E programCounts \in CountInputs : CountsResolve(c, programCounts)
        \/ \E f \in Fetches : FetchRejects(c, f)
        \/ TakeSnapshotFinish(c)

Spec == Init /\ [][Next]_vars

----------------------------------------------------------------------------
(* Long runs: one caller, the same data fetched every round, enough rounds *)
(* to fill the history and evict from it.                                  *)

MaxRingSnapshots == 150

RingStats == {[tps |-> 100]}

RingBlocks == { <<Block(30, 30)>> }

RingCounts == { <<Entry("X", 10)>> }

NextRing ==
    \E c \in Callers :
        \/ TakeSnapshotStart(c, MaxRingSnapshots)
        \/ \E stats \in RingStats : StatsResolves(c, stats)
        \/ \E blocks \in RingBlocks : BlocksResolve(c, blocks)
        \/ \E programCounts \in RingCounts : CountsResolve(c, programCounts)
        \/ \E f \in Fetches : FetchRejects(c, f)
        \/ TakeSnapshotFinish(c)

SpecRing == Init /\ [][NextRing]_vars

----------------------------------------------------------------------------
(* History ring *)

\* C1: whatever mix of successful and failed takeSnapshot calls was made, the
\* history seen through getHistory has at most 100 entries, and after 150
\* successful calls it has exactly 100.
C1_HistoryAtMost100 ==
    /\ Len(getHistory) <= 100
    /\ allocated = 150 => Len(getHistory) = 100

C1_Witness ==
    /\ allocated = 150
    /\ Len(getHistory) = 100
    /\ outcome["c1"].status = "ok"

\* C2: eviction is FIFO.  A successful takeSnapshot on a full history drops
\* exactly the oldest entry and puts the new data point last; so after n > 100
\* successful snapshots the history is the data points of snapshots
\* n-99 .. n in that order.
C2_FifoEviction ==
    /\ [](allocated > 100 =>
            /\ Len(getHistory) = 100
            /\ \A i \in 1..100 : getHistory[i].ref = allocated - 100 + i)
    /\ [][(allocated' = allocated + 1 /\ Len(history) = 100) =>
            /\ Len(history') = 100
            /\ history'[100].ref = allocated'
            /\ history' = Append(Tail(history), history'[100])]_vars

C2_Witness ==
    /\ allocated = 150
    /\ Len(getHistory) = 100
    /\ getHistory[1].ref = 51
    /\ getHistory[100].ref = 150

----------------------------------------------------------------------------
(* Fetch failures *)

\* C3: when one of the three fetches of a takeSnapshot call throws, the call
\* ends there: its caller gets that fetch's error and no snapshot, whether the
\* other two fetches had resolved or not, and no fetch is issued again for the
\* call.  A snapshot is returned only when all three fetches resolved.
C3_AnyFetchFailureFailsCall ==
    \A c \in AllCallers :
        /\ \A f \in Fetches :
              Rejected(pending[c].fetch[f]) =>
                  /\ ~pending[c].active
                  /\ outcome[c] = [status |-> "err", error |-> f]
        /\ outcome[c].status = "ok" =>
              \A f \in Fetches : Resolved(pending[c].fetch[f])

C3_Witness ==
    /\ Rejected(pending["c1"].fetch["getNetworkStats"])
    /\ Resolved(pending["c1"].fetch["getRecentBlockProduction"])
    /\ Resolved(pending["c1"].fetch["getTopProgramsFromRecentBlocks"])
    /\ outcome["c1"].status = "err"
    /\ allocated > 0

----------------------------------------------------------------------------
(* State update and baseline *)

\* the step in which caller c's takeSnapshot returns a snapshot
Succeeds(c) == pending[c].active /\ outcome'[c].status = "ok"

FetchedStats(c) == pending[c].fetch["getNetworkStats"][1]

FetchedBlocks(c) == pending[c].fetch["getRecentBlockProduction"][1]

FetchedCounts(c) == pending[c].fetch["getTopProgramsFromRecentBlocks"][1]

\* the value x equals 0.9 * b + 0.1 * t, for fractions x, b and an integer t
IsEwma(x, b, t) == x[1] * 10 * b[2] = (9 * b[1] + t * b[2]) * x[2]

\* C4: every takeSnapshot that returns a snapshot, with or without anomalies
\* in it, appends one history entry holding this round's stats.tps, the
\* summary's totalTransactions and successRate and this round's invocation
\* counts, leaves the baseline non-null (the observed TPS, or the moving average
\* of the old baseline and the observed TPS) and adds every identifier of this
\* round's invocation counts to the known set.
C4_FullStateUpdate ==
    [][\A c \in AllCallers : Succeeds(c) =>
          LET snap == outcome'[c].snapshot
              last == history'[Len(history')]
          IN  /\ history' = IF Len(history) < 100 THEN Append(history, last)
                            ELSE Append(Tail(history), last)
              /\ last.tps = FetchedStats(c).tps
              /\ last.tps = snap.stats.tps
              /\ last.txCount = snap.blockSummary.totalTransactions
              /\ last.txCount = SumTx(FetchedBlocks(c))
              /\ last.successRate = snap.blockSummary.successRate
              /\ last.programCounts = FetchedCounts(c)
              /\ baselineTps' # NULL
              /\ IF baselineTps = NULL THEN baselineTps' = <<last.tps, 1>>
                 ELSE IsEwma(baselineTps', baselineTps, last.tps)
              /\ knownPrograms' = knownPrograms \cup Keys(FetchedCounts(c))]_vars

\* a snapshot with anomalies in it was returned and the state was updated
C4_Witness ==
    /\ outcome["c1"].status = "ok"
    /\ outcome["c1"].snapshot.anomalies # <<>>
    /\ Len(history) = 2
    /\ history[2].tps = outcome["c1"].snapshot.stats.tps
    /\ history[2].programCounts = <<Entry("Y", 7), Entry("X", 35)>>
    /\ knownPrograms = {"X", "Y"}

\* C5: the baseline is null exactly while no takeSnapshot has succeeded; once
\* non-null it never becomes null again, and every later successful snapshot
\* moves it to a value between the old baseline and the observed TPS.
C5_BaselineNullUntilFirstSuccess ==
    /\ [](baselineTps = NULL <=> allocated = 0)
    /\ [][baselineTps # NULL => baselineTps' # NULL]_vars
    /\ [][\A c \in AllCallers : (Succeeds(c) /\ baselineTps # NULL) =>
            LET t == Num(FetchedStats(c).tps)
            IN  /\ baselineTps' # NULL
                /\ ~RatLt(baselineTps', baselineTps) \/ ~RatLt(baselineTps', t)
                /\ ~RatGt(baselineTps', baselineTps) \/ ~RatGt(baselineTps', t)]_vars

\* a failed call after two successful ones: the baseline is still there
C5_Witness ==
    /\ allocated = 2
    /\ baselineTps # NULL
    /\ outcome["c1"].status = "err"

\* C6: the first successful takeSnapshot sets the baseline to exactly the
\* observed TPS (from null, observed 50 gives 50).
C6_FirstSampleSetsBaseline ==
    [][\A c \in AllCallers : (Succeeds(c) /\ baselineTps = NULL) =>
          /\ baselineTps' = <<FetchedStats(c).tps, 1>>
          /\ FetchedStats(c).tps = 50 => baselineTps' = <<50, 1>>]_vars

C6_Witness ==
    /\ allocated = 1
    /\ outcome["c1"].status = "ok"
    /\ outcome["c1"].snapshot.stats.tps = 50
    /\ baselineTps = <<50, 1>>

\* C7: a successful takeSnapshot that starts with baseline b (not null) and
\* observes TPS t ends with baseline 0.9 * b + 0.1 * t (100 and 200 give 110).
C7_BaselineEwma ==
    [][\A c \in AllCallers : (Succeeds(c) /\ baselineTps # NULL) =>
          /\ IsEwma(baselineTps', baselineTps, FetchedStats(c).tps)
          /\ (baselineTps = <<100, 1>> /\ FetchedStats(c).tps = 200) =>
                baselineTps' = <<110, 1>>]_vars

C7_Witness ==
    /\ allocated = 2
    /\ outcome["c1"].status = "ok"
    /\ history[1].tps = 100
    /\ history[2].tps = 200
    /\ baselineTps = <<110, 1>>

\* the data fetched for caller c's call is the data of the previous snapshot
SameDataAsLast(c) ==
    /\ Len(history) > 0
    /\ LET last == history[Len(history)]
           summary == summarizeBlocks(FetchedBlocks(c))
       IN  /\ FetchedStats(c).tps = last.tps
           /\ summary.totalTransactions = last.txCount
           /\ summary.successRate = last.successRate
           /\ FetchedCounts(c) = last.programCounts

----------------------------------------------------------------------------
(* What a caller can do with the array returned by getHistory.  The array  *)
(* is new ([...this.history]) and its elements are the engine's own data   *)
(* point objects, whose programCounts are the engine's own Map objects.    *)

\* const h = engine.getHistory()
GetHistory ==
    /\ held' = [i \in DOMAIN getHistory |-> getHistory[i].ref]
    /\ UNCHANGED <<history, baselineTps, knownPrograms, allocated, pending, outcome, flagged>>

\* h.shift(): the returned array is the caller's own
CallerShiftsArray ==
    /\ held # <<>>
    /\ held' = Tail(held)
    /\ UNCHANGED <<history, baselineTps, knownPrograms, allocated, pending, outcome, flagged>>

\* h[i].tps = v: the object is the one the engine's history holds
CallerWritesTps(i, v) ==
    /\ i \in DOMAIN held
    /\ history' = [j \in DOMAIN history |->
                     IF history[j].ref = held[i] THEN [history[j] EXCEPT !.tps = v]
                     ELSE history[j]]
    /\ UNCHANGED <<baselineTps, knownPrograms, allocated, pending, outcome, held, flagged>>

\* h[i].programCounts.set(id, n): the Map is the one the engine's history holds
CallerSetsCount(i, e) ==
    /\ i \in DOMAIN held
    /\ history' = [j \in DOMAIN history |->
                     IF history[j].ref = held[i]
                     THEN [history[j] EXCEPT
                             !.programCounts = MapSet(history[j].programCounts, e.id, e.count)]
                     ELSE history[j]]
    /\ UNCHANGED <<baselineTps, knownPrograms, allocated, pending, outcome, held, flagged>>

MaxAliasSnapshots == 2

WrittenTps == {0}

WrittenCounts == {Entry("Y", 99)}

NextAlias ==
    \/ \E c \in Callers :
        \/ TakeSnapshotStart(c, MaxAliasSnapshots)
        \/ \E stats \in StatsInputs : StatsResolves(c, stats)
        \/ \E blocks \in BlockInputs : BlocksResolve(c, blocks)
        \/ \E programCounts \in CountInputs : CountsResolve(c, programCounts)
        \/ \E f \in Fetches : FetchRejects(c, f)
        \/ TakeSnapshotFinish(c)
    \/ GetHistory
    \/ CallerShiftsArray
    \/ \E i \in DOMAIN held, v \in WrittenTps : CallerWritesTps(i, v)
    \/ \E i \in DOMAIN held, e \in WrittenCounts : CallerSetsCount(i, e)

SpecAlias == Init /\ [][NextAlias]_vars

\* C9: the engine's history changes only when a takeSnapshot returns a
\* snapshot; nothing a caller does with the value returned by getHistory
\* (changing the array, a field of a data point, or a data point's invocation
\* counts) changes it.
C9_HistoryChangesOnlyBySnapshot ==
    [][history' # history => \E c \in AllCallers : Succeeds(c)]_vars

----------------------------------------------------------------------------
(* Identifiers that come and go: one caller, fixed throughput and blocks,  *)
(* and each round one of two identifiers invoked.                          *)

MaxProgramSnapshots == 11

ProgramStats == {[tps |-> 100]}

ProgramBlocks == { <<Block(30, 30)>> }

ProgramCounts == { <<Entry("X", 10)>>, <<Entry("Y", 7)>> }

NextPrograms ==
    \E c \in Callers :
        \/ TakeSnapshotStart(c, MaxProgramSnapshots)
        \/ \E stats \in ProgramStats : StatsResolves(c, stats)
        \/ \E blocks \in ProgramBlocks : BlocksResolve(c, blocks)
        \/ \E programCounts \in ProgramCounts : CountsResolve(c, programCounts)
        \/ \E f \in Fetches : FetchRejects(c, f)
        \/ TakeSnapshotFinish(c)

SpecPrograms == Init /\ [][NextPrograms]_vars

\* C10: no new_program_detected anomaly is returned for an identifier that is
\* already in the known-identifier set, also when the identifier is in none of
\* the last five history entries; so over a run each identifier is flagged by
\* new_program_detected at most once.
C10_NewProgramAtMostOnce ==
    /\ [](\A id \in Identifiers : flagged[id] <= 1)
    /\ [][\A c \in AllCallers : Succeeds(c) =>
            NewProgramIds(outcome'[c].snapshot.anomalies) \cap knownPrograms = {}]_vars

\* X was flagged at its first appearance (snapshot 5), was in none of the five
\* snapshots after that, came back in snapshot 11 and was not flagged again
C10_Witness ==
    /\ allocated = 11
    /\ Len(history) = 11
    /\ flagged["X"] = 1
    /\ Has(history[5].programCounts, "X")
    /\ \A i \in 6..10 : ~Has(history[i].programCounts, "X")
    /\ Has(history[11].programCounts, "X")
    /\ outcome["c1"].status = "ok"
    /\ NewProgramIds(outcome["c1"].snapshot.anomalies) = {}

----------------------------------------------------------------------------
(* Anomaly rules, one specification per group of rules.  A rule's claim is *)
(* stated on the step in which a snapshot is returned: the state before    *)
(* the step and the fetched data on one side, the anomalies of the         *)
(* returned snapshot on the other.                                         *)

\* the anomalies of one type, in the order they were returned
OfType(anomalies, type) == SelectSeq(anomalies, LAMBDA a : a.type = type)

\* the anomalies of the snapshot caller c is being returned
Returned(c, type) == OfType(outcome'[c].snapshot.anomalies, type)

\* the anomalies of the snapshot caller c holds
Got(c, type) == OfType(outcome[c].snapshot.anomalies, type)

(* New identifiers: fixed throughput and blocks; each round the system     *)
(* program alone, X alone, or Y and X.                                     *)

MaxNewSnapshots == 7

NewCounts ==
    { <<Entry(SystemProgram, 3)>>, <<Entry("X", 10)>>, <<Entry("Y", 7), Entry("X", 35)>> }

NextNew ==
    \E c \in Callers :
        \/ TakeSnapshotStart(c, MaxNewSnapshots)
        \/ \E stats \in ProgramStats : StatsResolves(c, stats)
        \/ \E blocks \in ProgramBlocks : BlocksResolve(c, blocks)
        \/ \E programCounts \in NewCounts : CountsResolve(c, programCounts)
        \/ \E f \in Fetches : FetchRejects(c, f)
        \/ TakeSnapshotFinish(c)

SpecNew == Init /\ [][NextNew]_vars

\* C11: a round returns a new_program_detected anomaly for an identifier
\* exactly when the history had more than 3 entries before the round, the
\* identifier is in this round's invocation counts, and it is neither in the
\* invocation counts of the last 5 history entries nor in the known set.  There
\* is one anomaly, of severity low, for each such identifier, however many
\* there are, and none in the first four snapshots of an engine.
C11_NewProgramRule ==
    [][\A c \in AllCallers : Succeeds(c) =>
          LET anoms == Returned(c, "new_program_detected")
              lastFive == {i \in DOMAIN history : i > Len(history) - 5}
              recent == UNION {Keys(history[i].programCounts) : i \in lastFive}
              Fires(id) == /\ Len(history) > 3
                           /\ id \in Keys(FetchedCounts(c))
                           /\ id \notin recent
                           /\ id \notin knownPrograms
          IN  /\ \A id \in Identifiers :
                    Cardinality({i \in DOMAIN anoms : anoms[i].data.programId = id})
                      = IF Fires(id) THEN 1 ELSE 0
              /\ \A i \in DOMAIN anoms :
                    /\ anoms[i].severity = "low"
                    /\ anoms[i].data.programId \in Identifiers
              /\ allocated < 4 => anoms = <<>>]_vars

\* the fifth snapshot brings two identifiers never seen before: two anomalies
C11_Witness ==
    /\ allocated = 5
    /\ outcome["c1"].status = "ok"
    /\ Len(Got("c1", "new_program_detected")) = 2
    /\ \A i \in 1..4 : Keys(history[i].programCounts) = {SystemProgram}

(* Surges: fixed throughput and blocks; each round X with one of several   *)
(* counts, or Y without X.                                                 *)

MaxSurgeSnapshots == 4

SurgeCounts ==
    { <<Entry("X", 5)>>, <<Entry("X", 10)>>, <<Entry("X", 30)>>, <<Entry("X", 35)>>,
      <<Entry("X", 101)>>, <<Entry("Y", 7)>> }

NextSurge ==
    \E c \in Callers :
        \/ TakeSnapshotStart(c, MaxSurgeSnapshots)
        \/ \E stats \in ProgramStats : StatsResolves(c, stats)
        \/ \E blocks \in ProgramBlocks : BlocksResolve(c, blocks)
        \/ \E programCounts \in SurgeCounts : CountsResolve(c, programCounts)
        \/ \E f \in Fetches : FetchRejects(c, f)
        \/ TakeSnapshotFinish(c)

SpecSurge == Init /\ [][NextSurge]_vars

\* the count of id in the most recent history entry, 0 when it is not there
PrevCount(id) ==
    LET last == history[Len(history)].programCounts
        at == {i \in DOMAIN last : last[i].id = id}
    IN  IF at = {} THEN 0 ELSE last[CHOOSE i \in at : TRUE].count

\* C12: a round returns a program_surge anomaly for an identifier exactly when
\* the history had more than 2 entries before the round and, against the most
\* recent history entry alone, prevCount > 5 and currentCount > prevCount * 3
\* (10 then 35 fires).  Its severity is high when currentCount > prevCount * 10
\* and medium otherwise.  With a previous count of 5 or less, or none, it never
\* fires.
C12_ProgramSurgeRule ==
    [][\A c \in AllCallers : Succeeds(c) =>
          LET anoms == Returned(c, "program_surge")
              counts == FetchedCounts(c)
              Fires(e) == /\ Len(history) > 2
                          /\ PrevCount(e.id) > 5
                          /\ e.count > PrevCount(e.id) * 3
          IN  /\ \A k \in DOMAIN counts :
                    Cardinality({i \in DOMAIN anoms :
                                   anoms[i].data.programId = counts[k].id})
                      = IF Fires(counts[k]) THEN 1 ELSE 0
              /\ \A i \in DOMAIN anoms :
                    /\ anoms[i].data.programId \in Keys(counts)
                    /\ anoms[i].data.previousCount = PrevCount(anoms[i].data.programId)
                    /\ anoms[i].data.previousCount > 5
                    /\ anoms[i].severity =
                         IF anoms[i].data.currentCount > anoms[i].data.previousCount * 10
                         THEN "high" ELSE "medium"
              /\ (Len(history) > 2 /\ PrevCount("X") = 10
                    /\ counts = <<Entry("X", 35)>>) => Len(anoms) = 1]_vars

\* X was invoked 10 times in the third snapshot and 35 times in the fourth
C12_Witness ==
    /\ allocated = 4
    /\ outcome["c1"].status = "ok"
    /\ history[3].programCounts = <<Entry("X", 10)>>
    /\ history[4].programCounts = <<Entry("X", 35)>>
    /\ Got("c1", "program_surge") =
         <<[type |-> "program_surge", severity |-> "medium",
            data |-> [programId |-> "X", previousCount |-> 10, currentCount |-> 35]]>>

(* Throughput: fixed blocks and counts; each round one of several rates,   *)
(* chosen around the ratios 0.1, 0.3, 2 and 3 of a baseline of 100.        *)

MaxTpsSnapshots == 3

TpsStats == { [tps |-> t] : t \in {0, 5, 10, 29, 30, 100, 200, 250, 300, 350} }

TpsCounts == { <<Entry("X", 10)>> }

NextTps ==
    \E c \in Callers :
        \/ TakeSnapshotStart(c, MaxTpsSnapshots)
        \/ \E stats \in TpsStats : StatsResolves(c, stats)
        \/ \E blocks \in ProgramBlocks : BlocksResolve(c, blocks)
        \/ \E programCounts \in TpsCounts : CountsResolve(c, programCounts)
        \/ \E f \in Fetches : FetchRejects(c, f)
        \/ TakeSnapshotFinish(c)

SpecTps == Init /\ [][NextTps]_vars

\* currentTps / baselineTps > num / den, for a baseline n/d above 0
RatioAbove(currentTps, num, den) ==
    currentTps * baselineTps[2] * den > num * baselineTps[1]

\* currentTps / baselineTps < num / den, for a baseline n/d above 0
RatioBelow(currentTps, num, den) ==
    currentTps * baselineTps[2] * den < num * baselineTps[1]

HasBaseline == baselineTps # NULL /\ baselineTps[1] > 0

\* C13: a round returns a tps_spike anomaly exactly when the baseline before
\* the round is non-null and above 0 and currentTps / baseline > 2.  Its
\* severity is high when the ratio is above 3 and medium otherwise: baseline
\* 100 gives medium at 250 and high at 350.  The first snapshot returns none.
C13_TpsSpikeRule ==
    [][\A c \in AllCallers : Succeeds(c) =>
          LET spikes == Returned(c, "tps_spike")
              tps == FetchedStats(c).tps
          IN  /\ Len(spikes) = IF HasBaseline /\ RatioAbove(tps, 2, 1) THEN 1 ELSE 0
              /\ \A i \in DOMAIN spikes :
                    spikes[i].severity =
                      IF RatioAbove(tps, 3, 1) THEN "high" ELSE "medium"
              /\ (baselineTps = Num(100) /\ tps = 250) =>
                    (Len(spikes) = 1 /\ spikes[1].severity = "medium")
              /\ (baselineTps = Num(100) /\ tps = 350) =>
                    (Len(spikes) = 1 /\ spikes[1].severity = "high")
              /\ Len(history) = 0 => spikes = <<>>]_vars

\* a second snapshot at 250 after a first at 100 returned a medium spike
C13_Witness ==
    /\ allocated = 2
    /\ outcome["c1"].status = "ok"
    /\ history[1].tps = 100
    /\ history[2].tps = 250
    /\ Len(Got("c1", "tps_spike")) = 1
    /\ Got("c1", "tps_spike")[1].severity = "medium"
    /\ Got("c1", "tps_spike")[1].data.baselineTps = Num(100)

\* C14: a round returns a tps_drop anomaly exactly when the baseline before
\* the round is non-null and above 0, currentTps / baseline < 0.3 and
\* currentTps > 0.  Its severity is high when the ratio is below 0.1 and medium
\* otherwise.  No round returns both a tps_spike and a tps_drop, and a round
\* with currentTps = 0 returns no tps_drop.
C14_TpsDropRule ==
    [][\A c \in AllCallers : Succeeds(c) =>
          LET drops == Returned(c, "tps_drop")
              tps == FetchedStats(c).tps
          IN  /\ Len(drops) = IF HasBaseline /\ RatioBelow(tps, 3, 10) /\ tps > 0
                              THEN 1 ELSE 0
              /\ \A i \in DOMAIN drops :
                    drops[i].severity =
                      IF RatioBelow(tps, 1, 10) THEN "high" ELSE "medium"
              /\ ~(Returned(c, "tps_spike") # <<>> /\ drops # <<>>)
              /\ tps = 0 => drops = <<>>]_vars

\* a second snapshot at 5 after a first at 100 returned a high drop and no spike
C14_Witness ==
    /\ allocated = 2
    /\ outcome["c1"].status = "ok"
    /\ history[1].tps = 100
    /\ history[2].tps = 5
    /\ Len(Got("c1", "tps_drop")) = 1
    /\ Got("c1", "tps_drop")[1].severity = "high"
    /\ Got("c1", "tps_spike") = <<>>

(* Block batches: fixed throughput and counts; each round one of several   *)
(* batches, among them the empty batch and batches of blocks without       *)
(* transactions.                                                           *)

MaxBlockSnapshots == 2

BatchInputs ==
    { <<>>, <<Block(0, 0)>>, <<Block(50, 20)>>, <<Block(5, 2)>>, <<Block(10, 4)>>,
      <<Block(11, 4)>>, <<Block(20, 10)>>, <<Block(20, 15)>>, <<Block(20, 16)>>,
      <<Block(4, 1)>>, <<Block(3, 3), Block(4, 4)>>, <<Block(9, 9), Block(0, 0)>>,
      <<Block(10, 0), Block(90, 90)>> }

NextBlocks ==
    \E c \in Callers :
        \/ TakeSnapshotStart(c, MaxBlockSnapshots)
        \/ \E stats \in ProgramStats : StatsResolves(c, stats)
        \/ \E blocks \in BatchInputs : BlocksResolve(c, blocks)
        \/ \E programCounts \in TpsCounts : CountsResolve(c, programCounts)
        \/ \E f \in Fetches : FetchRejects(c, f)
        \/ TakeSnapshotFinish(c)

SpecBlocks == Init /\ [][NextBlocks]_vars

ReturnedSummary(c) == outcome'[c].snapshot.blockSummary

\* a fraction n/d is below the integer k
Below(q, k) == q[1] < k * q[2]

\* C15: a round returns a high_failure_rate anomaly exactly when its block
\* summary has successRate < 80 and totalTransactions > 10.  Its severity is
\* high when successRate < 50 and medium otherwise.  40% over 50 transactions
\* fires with high, 40% over 5 transactions does not fire, and a batch without
\* transactions never fires.
C15_HighFailureRateRule ==
    [][\A c \in AllCallers : Succeeds(c) =>
          LET anoms == Returned(c, "high_failure_rate")
              summary == ReturnedSummary(c)
          IN  /\ Len(anoms) = IF Below(summary.successRate, 80)
                                   /\ summary.totalTransactions > 10
                              THEN 1 ELSE 0
              /\ \A i \in DOMAIN anoms :
                    anoms[i].severity =
                      IF Below(summary.successRate, 50) THEN "high" ELSE "medium"
              /\ FetchedBlocks(c) = <<Block(50, 20)>> =>
                    (Len(anoms) = 1 /\ anoms[1].severity = "high")
              /\ FetchedBlocks(c) = <<Block(5, 2)>> => anoms = <<>>
              /\ SumTx(FetchedBlocks(c)) = 0 => anoms = <<>>]_vars

\* 20 of 50 transactions succeeded and the round returned a high anomaly
C15_Witness ==
    /\ outcome["c1"].status = "ok"
    /\ outcome["c1"].snapshot.blockSummary.totalTransactions = 50
    /\ outcome["c1"].snapshot.blockSummary.successRate = Num(40)
    /\ Len(Got("c1", "high_failure_rate")) = 1
    /\ Got("c1", "high_failure_rate")[1].severity = "high"

\* C16: a round returns an empty_block anomaly, of severity medium, exactly
\* when avgTxPerBlock < 5 and blocksAnalyzed > 0.  A round in which no block
\* was analyzed returns none.
C16_EmptyBlockRule ==
    [][\A c \in AllCallers : Succeeds(c) =>
          LET anoms == Returned(c, "empty_block")
              summary == ReturnedSummary(c)
          IN  /\ Len(anoms) = IF Below(summary.avgTxPerBlock, 5)
                                   /\ summary.blocksAnalyzed > 0
                              THEN 1 ELSE 0
              /\ \A i \in DOMAIN anoms : anoms[i].severity = "medium"
              /\ FetchedBlocks(c) = <<>> => anoms = <<>>]_vars

\* two blocks of 3 and 4 transactions and the round returned the anomaly
C16_Witness ==
    /\ outcome["c1"].status = "ok"
    /\ outcome["c1"].snapshot.blockSummary.blocksAnalyzed = 2
    /\ outcome["c1"].snapshot.blockSummary.avgTxPerBlock = Rat(7, 2)
    /\ Len(Got("c1", "empty_block")) = 1

\* n / d as the source's arithmetic gives it: 0 / 0 is NaN, written <<0, 0>>
Quotient(n, d) == IF d = 0 THEN <<0, 0>> ELSE Rat(n, d)

InPercentRange(q) == q[2] > 0 /\ q[1] >= 0 /\ q[1] <= 100 * q[2]

\* C17 as stated: for every non-empty batch, successRate lies in [0, 100] and
\* equals (sum of successful / sum of transactions) * 100.
C17_AggregateRateOfEveryBatch ==
    [][\A c \in AllCallers : (Succeeds(c) /\ FetchedBlocks(c) # <<>>) =>
          /\ InPercentRange(ReturnedSummary(c).successRate)
          /\ ReturnedSummary(c).successRate =
               Quotient(SumSuccess(FetchedBlocks(c)) * 100, SumTx(FetchedBlocks(c)))]_vars

\* C17: for every non-empty batch, successRate lies in [0, 100]; when the
\* batch has at least one transaction it equals (sum of successful / sum of
\* transactions) * 100 over the whole batch, not the mean of the per-block
\* rates; when the batch has no transaction it is 0.
C17_AggregateRate ==
    [][\A c \in AllCallers : (Succeeds(c) /\ FetchedBlocks(c) # <<>>) =>
          LET rate == ReturnedSummary(c).successRate
              sumOk == SumSuccess(FetchedBlocks(c))
              sumTx == SumTx(FetchedBlocks(c))
          IN  /\ InPercentRange(rate)
              /\ sumTx > 0 => rate[1] * sumTx = sumOk * 100 * rate[2]
              /\ sumTx = 0 => rate = Num(0)
              /\ FetchedBlocks(c) = <<Block(10, 0), Block(90, 90)>> => rate = Num(90)]_vars

\* a block where none of 10 succeeded and one where all 90 did: 90, not 50
C17_Witness ==
    /\ outcome["c1"].status = "ok"
    /\ pending["c1"].fetch["getRecentBlockProduction"]
         = <<(<<Block(10, 0), Block(90, 90)>>)>>
    /\ outcome["c1"].snapshot.blockSummary.successRate = Num(90)

ZeroSummary ==
    [blocksAnalyzed |-> 0, totalTransactions |-> 0, successRate |-> Num(0),
     avgTxPerBlock |-> Num(0), avgFeePerTx |-> Num(0)]

\* the call of c ends in this step and none of its fetches was rejected
EndsWithoutRejection(c) ==
    /\ pending[c].active
    /\ ~pending'[c].active
    /\ \A f \in Fetches : ~Rejected(pending'[c].fetch[f])

\* C18: an empty batch is never an error.  A call whose batch is empty and
\* whose fetches all resolved succeeds, its block summary is the all-zero
\* summary, and the state update of the round is performed: one data point
\* with txCount 0 and successRate 0 is appended, the baseline is updated from
\* the round's throughput and the round's identifiers become known.
C18_EmptyBatchIsNoError ==
    [][\A c \in AllCallers :
          (/\ EndsWithoutRejection(c)
           /\ Resolved(pending[c].fetch["getRecentBlockProduction"])
           /\ FetchedBlocks(c) = <<>>) =>
             /\ outcome'[c].status = "ok"
             /\ ReturnedSummary(c) = ZeroSummary
             /\ Len(history') = Len(history) + 1
             /\ history'[Len(history')].ref = allocated + 1
             /\ history'[Len(history')].tps = FetchedStats(c).tps
             /\ history'[Len(history')].txCount = 0
             /\ history'[Len(history')].successRate = Num(0)
             /\ history'[Len(history')].programCounts = FetchedCounts(c)
             /\ baselineTps' # NULL
             /\ baselineTps = NULL => baselineTps' = Num(FetchedStats(c).tps)
             /\ baselineTps # NULL => IsEwma(baselineTps', baselineTps, FetchedStats(c).tps)
             /\ knownPrograms' = knownPrograms \cup Keys(FetchedCounts(c))]_vars

\* a second snapshot over an empty batch succeeded with the all-zero summary
C18_Witness ==
    /\ allocated = 2
    /\ Len(history) = 2
    /\ outcome["c1"].status = "ok"
    /\ pending["c1"].fetch["getRecentBlockProduction"] = <<(<<>>)>>
    /\ outcome["c1"].snapshot.blockSummary = ZeroSummary
    /\ history[2].txCount = 0

(* Ranking: fixed throughput and blocks; each round a map of 0 to 22        *)
(* identifiers p1, p2, ... in this order, with counts all 1, rising, or     *)
(* mixed with ties.                                                        *)

MaxRankSnapshots == 2

RankSizes == {0, 1, 3, 20, 21, 22}

RankShapes == {"flat", "rising", "mixed"}

Weight(shape, i) ==
    CASE shape = "flat" -> 1
      [] shape = "rising" -> i
      [] shape = "mixed" -> ((i * 7) % 5) + 1

RankCounts ==
    { [i \in 1..n |-> Entry("p" \o ToString(i), Weight(shape, i))] :
        n \in RankSizes, shape \in RankShapes }

NextRank ==
    \E c \in Callers :
        \/ TakeSnapshotStart(c, MaxRankSnapshots)
        \/ \E stats \in ProgramStats : StatsResolves(c, stats)
        \/ \E blocks \in ProgramBlocks : BlocksResolve(c, blocks)
        \/ \E programCounts \in RankCounts : CountsResolve(c, programCounts)
        \/ \E f \in Fetches : FetchRejects(c, f)
        \/ TakeSnapshotFinish(c)

SpecRank == Init /\ [][NextRank]_vars

ReturnedRanking(c) == outcome'[c].snapshot.topPrograms

RECURSIVE SumShares(_)
SumShares(ranking) ==
    IF ranking = <<>> THEN Num(0)
    ELSE RatAdd(ranking[1].share, SumShares(Tail(ranking)))

\* C19 as stated: the shares of the returned ranking sum to 100 when the map
\* has at most 20 entries, and to at most 100 when it has more.
C19_SharesSumTo100 ==
    [][\A c \in AllCallers : Succeeds(c) =>
          LET sum == SumShares(ReturnedRanking(c))
          IN  IF Len(FetchedCounts(c)) <= TopN
              THEN sum = Num(100)
              ELSE ~RatGt(sum, Num(100))]_vars

\* C19: the shares of the returned ranking, added as exact fractions, sum to
\* 100 when the map has between 1 and 20 entries, to 0 when the map is empty,
\* and to at most 100 when the map has more than 20 entries.
C19_SharesSumTo100UnlessEmpty ==
    [][\A c \in AllCallers : Succeeds(c) =>
          LET sum == SumShares(ReturnedRanking(c))
              entries == Len(FetchedCounts(c))
          IN  /\ entries \in 1..TopN => sum = Num(100)
              /\ entries = 0 => (ReturnedRanking(c) = <<>> /\ sum = Num(0))
              /\ entries > TopN => ~RatGt(sum, Num(100))]_vars

\* three identifiers invoked once each: three shares of 100/3
C19_Witness ==
    /\ outcome["c1"].status = "ok"
    /\ Len(outcome["c1"].snapshot.topPrograms) = 3
    /\ \A i \in 1..3 : outcome["c1"].snapshot.topPrograms[i].share = Rat(100, 3)
    /\ SumShares(outcome["c1"].snapshot.topPrograms) = Num(100)

\* the position of id in the map's iteration order
PosOf(programCounts, id) == CHOOSE i \in DOMAIN programCounts : programCounts[i].id = id

\* C20: the returned ranking has at most 20 entries, each an entry of the
\* round's map; it is ordered by invocation count descending, entries of equal
\* count in the map's iteration order; every identifier left out has a count
\* no greater than every identifier included; and each share is the count
\* over the total of the whole map, times 100.
C20_RankingOrderAndCut ==
    [][\A c \in AllCallers : Succeeds(c) =>
          LET ranking == ReturnedRanking(c)
              counts == FetchedCounts(c)
              total == SumCounts(counts)
              included == {ranking[i].programId : i \in DOMAIN ranking}
          IN  /\ Len(ranking) = Min(TopN, Len(counts))
              /\ Len(ranking) <= 20
              /\ Cardinality(included) = Len(ranking)
              /\ \A i \in DOMAIN ranking :
                    /\ ranking[i].programId \in Keys(counts)
                    /\ ranking[i].invocationCount
                         = counts[PosOf(counts, ranking[i].programId)].count
                    /\ ranking[i].share[1] * total
                         = ranking[i].invocationCount * 100 * ranking[i].share[2]
              /\ \A i, j \in DOMAIN ranking : i < j =>
                    \/ ranking[i].invocationCount > ranking[j].invocationCount
                    \/ /\ ranking[i].invocationCount = ranking[j].invocationCount
                       /\ PosOf(counts, ranking[i].programId)
                            < PosOf(counts, ranking[j].programId)
              /\ \A k \in DOMAIN counts : counts[k].id \notin included =>
                    \A i \in DOMAIN ranking :
                        counts[k].count <= ranking[i].invocationCount]_vars

\* 22 identifiers with rising counts: the ranking starts at p22 and stops at p3
C20_Witness ==
    /\ outcome["c1"].status = "ok"
    /\ Len(pending["c1"].fetch["getTopProgramsFromRecentBlocks"][1]) = 22
    /\ Len(outcome["c1"].snapshot.topPrograms) = 20
    /\ outcome["c1"].snapshot.topPrograms[1].programId = "p22"
    /\ outcome["c1"].snapshot.topPrograms[20].programId = "p3"
    /\ outcome["c1"].snapshot.topPrograms[1].share = Rat(2200, 253)

----------------------------------------------------------------------------
(* One engine shared by two callers: the handlers of GET /api/snapshot and  *)
(* GET /api/anomalies of one server, or two ticks of the dashboard's        *)
(* setInterval.  Each may start a takeSnapshot whenever it has none of its  *)
(* own pending.  Throughput and blocks are the same every round; the counts *)
(* vary during the last rounds, so that long runs stay enumerable.         *)

MaxSharedSnapshots == 101

VariedRounds == 3

SharedCounts ==
    IF allocated >= MaxSharedSnapshots - VariedRounds
    THEN { <<Entry("X", 10)>>, <<Entry("X", 35)>> }
    ELSE RingCounts

NextShared ==
    \E c \in AllCallers :
        \/ TakeSnapshotStart(c, MaxSharedSnapshots)
        \/ \E stats \in RingStats : StatsResolves(c, stats)
        \/ \E blocks \in RingBlocks : BlocksResolve(c, blocks)
        \/ \E programCounts \in SharedCounts : CountsResolve(c, programCounts)
        \/ \E f \in Fetches : FetchRejects(c, f)
        \/ TakeSnapshotFinish(c)

SpecShared == Init /\ [][NextShared]_vars

\* caller c starts a takeSnapshot in this step
Starts(c) == ~pending[c].active /\ pending'[c].active

\* C21: no takeSnapshot is started on an engine while an earlier takeSnapshot
\* on that engine is still pending.
C21_NoOverlappingTicks ==
    [][\A c \in AllCallers : Starts(c) =>
          \A d \in AllCallers \ {c} : ~pending[d].active]_vars

----------------------------------------------------------------------------
(* Evaluation before update: one caller; each round a throughput of 100 or *)
(* 350 and either X alone or X surging together with Y.                    *)

MaxEvalSnapshots == 5

EvalStats == {[tps |-> 100], [tps |-> 350]}

EvalCounts == { <<Entry("X", 10)>>, <<Entry("X", 35), Entry("Y", 7)>> }

NextEval ==
    \E c \in Callers :
        \/ TakeSnapshotStart(c, MaxEvalSnapshots)
        \/ \E stats \in EvalStats : StatsResolves(c, stats)
        \/ \E blocks \in RingBlocks : BlocksResolve(c, blocks)
        \/ \E programCounts \in EvalCounts : CountsResolve(c, programCounts)
        \/ \E f \in Fetches : FetchRejects(c, f)
        \/ TakeSnapshotFinish(c)

SpecEval == Init /\ [][NextEval]_vars

StateDependent == {"tps_spike", "tps_drop", "new_program_detected", "program_surge"}

\* C22: the anomalies a takeSnapshot returns are the rules applied to the
\* baseline, the history and the known identifiers as they are before the
\* call's own state update: a tps anomaly reports the baseline of before the
\* update, a new program is one that was not known before the update, and a
\* surge compares with the last entry of the history of before the update.
\* The first snapshot of a fresh engine returns no tps_spike, tps_drop,
\* new_program_detected or program_surge.
C22_RulesSeeStateBeforeUpdate ==
    [][\A c \in AllCallers : Succeeds(c) =>
          LET anomalies == outcome'[c].snapshot.anomalies
          IN  /\ anomalies =
                   detectAnomalies(FetchedStats(c), summarizeBlocks(FetchedBlocks(c)),
                                   rankPrograms(FetchedCounts(c)), FetchedCounts(c))
              /\ \A i \in DOMAIN anomalies :
                    /\ anomalies[i].type \in {"tps_spike", "tps_drop"} =>
                          /\ baselineTps # NULL
                          /\ anomalies[i].data.baselineTps = baselineTps
                    /\ anomalies[i].type = "new_program_detected" =>
                          /\ Len(history) > 3
                          /\ anomalies[i].data.programId \notin knownPrograms
                    /\ anomalies[i].type = "program_surge" =>
                          /\ Len(history) > 2
                          /\ anomalies[i].data.previousCount
                               = PrevCount(anomalies[i].data.programId)
              /\ (Len(history) = 0 /\ baselineTps = NULL /\ knownPrograms = {}) =>
                    \A i \in DOMAIN anomalies : anomalies[i].type \notin StateDependent]_vars

\* the fifth snapshot returned a spike against the baseline of before it, the
\* new identifier Y, now known, and a surge of X from 10, now 35 in the history
C22_Witness ==
    /\ allocated = 5
    /\ outcome["c1"].status = "ok"
    /\ Len(Got("c1", "tps_spike")) = 1
    /\ Got("c1", "tps_spike")[1].data.baselineTps = Num(100)
    /\ baselineTps = Num(125)
    /\ Len(Got("c1", "new_program_detected")) = 1
    /\ Got("c1", "new_program_detected")[1].data.programId = "Y"
    /\ "Y" \in knownPrograms
    /\ Len(Got("c1", "program_surge")) = 1
    /\ Got("c1", "program_surge")[1].data.previousCount = 10
    /\ history[5].programCounts = <<Entry("X", 35), Entry("Y", 7)>>

----------------------------------------------------------------------------
(* Rule order: one caller; steady rounds, then in the last two rounds any   *)
(* mix of throughput, batch and counts, so that several rules fire at once. *)

MaxOrderSnapshots == 5

LateRound == allocated >= MaxOrderSnapshots - 2

OrderStats ==
    IF LateRound THEN {[tps |-> 10], [tps |-> 100], [tps |-> 350]} ELSE RingStats

OrderBlocks ==
    IF LateRound
    THEN { <<Block(30, 30)>>, <<Block(2500, 1000)>>, <<Block(4, 1)>>,
           <<Block(4, 1), Block(4, 1), Block(4, 1)>> }
    ELSE RingBlocks

OrderCounts ==
    IF LateRound
    THEN { <<Entry("X", 10)>>, <<Entry("X", 35), Entry("Y", 7)>> }
    ELSE RingCounts

NextOrder ==
    \E c \in Callers :
        \/ TakeSnapshotStart(c, MaxOrderSnapshots)
        \/ \E stats \in OrderStats : StatsResolves(c, stats)
        \/ \E blocks \in OrderBlocks : BlocksResolve(c, blocks)
        \/ \E programCounts \in OrderCounts : CountsResolve(c, programCounts)
        \/ \E f \in Fetches : FetchRejects(c, f)
        \/ TakeSnapshotFinish(c)

SpecOrder == Init /\ [][NextOrder]_vars

\* the place of a rule in detectAnomalies
RuleOrder(type) ==
    CASE type = "high_failure_rate" -> 1
      [] type \in {"tps_spike", "tps_drop"} -> 2
      [] type = "large_block" -> 3
      [] type = "empty_block" -> 4
      [] type = "new_program_detected" -> 5
      [] type = "program_surge" -> 6

\* C23: the anomalies of a snapshot come in the order high_failure_rate, then
\* tps_spike or tps_drop, then large_block, then empty_block, then every
\* new_program_detected, then every program_surge.  What a rule contributes
\* is what that rule gives on its own, whichever other rules fire.
C23_FixedRuleOrder ==
    [][\A c \in AllCallers : Succeeds(c) =>
          LET anomalies == outcome'[c].snapshot.anomalies
              summary == summarizeBlocks(FetchedBlocks(c))
          IN  /\ \A i, j \in DOMAIN anomalies :
                    i < j => RuleOrder(anomalies[i].type) <= RuleOrder(anomalies[j].type)
              /\ Returned(c, "high_failure_rate") = HighFailureRate(summary)
              /\ Returned(c, "tps_spike") \o Returned(c, "tps_drop")
                   = TpsAnomalies(FetchedStats(c))
              /\ Returned(c, "large_block") = LargeBlock(summary)
              /\ Returned(c, "empty_block") = EmptyBlock(summary)
              /\ Returned(c, "new_program_detected") = NewPrograms(FetchedCounts(c))
              /\ Returned(c, "program_surge") = ProgramSurges(FetchedCounts(c))]_vars

\* five rules fired in one round
C23_Witness ==
    /\ outcome["c1"].status = "ok"
    /\ Len(outcome["c1"].snapshot.anomalies) = 5
    /\ [i \in 1..5 |-> outcome["c1"].snapshot.anomalies[i].type]
         = <<"high_failure_rate", "tps_spike", "large_block",
             "new_program_detected", "program_surge">>

----------------------------------------------------------------------------
(* The data source (src/src/solana/client.ts): getRecentBlockProduction and *)
(* getTopProgramsFromRecentBlocks step by step.  While one of them samples, *)
(* its slot of the call is <<"sampling", currentSlot, i, results>>: the     *)
(* height obtained from getSlot, the loop counter and what has been         *)
(* collected so far.  A failure of getSlot is FetchRejects.                 *)

SamplingFetches == {"getRecentBlockProduction", "getTopProgramsFromRecentBlocks"}

Sampling(slot) == Len(slot) = 4

\* takeSnapshot(numBlocks): the number of heights sampled
NumBlocks == 2

CurrentSlots == {10}

\* client.ts:120 and 213: getSlot resolves and the loop begins
GetSlotResolves(c, f, currentSlot) ==
    /\ pending[c].active
    /\ pending[c].fetch[f] = <<>>
    /\ pending' = [pending EXCEPT ![c].fetch[f] = <<"sampling", currentSlot, 0, <<>>>>]
    /\ UNCHANGED <<history, baselineTps, knownPrograms, allocated, outcome, held, flagged>>

\* the loop of f is at a height it has yet to sample
AtHeight(c, f) ==
    /\ pending[c].active
    /\ Sampling(pending[c].fetch[f])
    /\ pending[c].fetch[f][3] < NumBlocks

Advance(c, f, results) ==
    pending' = [pending EXCEPT ![c].fetch[f] =
                  <<"sampling", pending[c].fetch[f][2], pending[c].fetch[f][3] + 1, results>>]

\* a faulty variant of HeightThrows: the error of getBlock leaves the loop and
\* rejects the fetch
HeightThrows_Propagated(c, f) ==
    /\ AtHeight(c, f)
    /\ pending' = [pending EXCEPT ![c].active = FALSE,
                                  ![c].fetch[f] = <<"rejected", f>>]
    /\ outcome' = [outcome EXCEPT ![c] = Rejection(f)]
    /\ UNCHANGED <<history, baselineTps, knownPrograms, allocated, held, flagged>>

\* client.ts:147 and 235: getBlock or getParsedBlock throws; the catch block is
\* empty and the loop goes on
HeightThrows(c, f) ==
    /\ AtHeight(c, f)
    /\ Advance(c, f, pending[c].fetch[f][4])
    /\ UNCHANGED <<history, baselineTps, knownPrograms, allocated, outcome, held, flagged>>

\* client.ts:132 and 224: the block is null; `if (block)` skips it
HeightMissing(c, f) ==
    /\ AtHeight(c, f)
    /\ Advance(c, f, pending[c].fetch[f][4])
    /\ UNCHANGED <<history, baselineTps, knownPrograms, allocated, outcome, held, flagged>>

\* client.ts:132-145: a record of the block at currentSlot - i is pushed
BlockFetched(c, numTx, numFailed) ==
    LET f == "getRecentBlockProduction"
        slot == pending[c].fetch[f]
    IN  /\ AtHeight(c, f)
        /\ Advance(c, f, Append(slot[4], [slot |-> slot[2] - slot[3],
                                           numTransactions |-> numTx,
                                           numSuccessful |-> numTx - numFailed]))
        /\ UNCHANGED <<history, baselineTps, knownPrograms, allocated, outcome, held, flagged>>

\* client.ts:225-233: one more invocation counted for each instruction
RECURSIVE CountInstructions(_, _)
CountInstructions(programCounts, instructions) ==
    IF instructions = <<>> THEN programCounts
    ELSE CountInstructions(MapSet(programCounts, instructions[1],
                                  GetOrZero(programCounts, instructions[1]) + 1),
                           Tail(instructions))

ParsedBlockFetched(c, instructions) ==
    LET f == "getTopProgramsFromRecentBlocks"
    IN  /\ AtHeight(c, f)
        /\ Advance(c, f, CountInstructions(pending[c].fetch[f][4], instructions))
        /\ UNCHANGED <<history, baselineTps, knownPrograms, allocated, outcome, held, flagged>>

\* client.ts:152 and 240: the loop is over and the fetch resolves
SamplingReturns(c, f) ==
    /\ pending[c].active
    /\ Sampling(pending[c].fetch[f])
    /\ pending[c].fetch[f][3] = NumBlocks
    /\ pending' = [pending EXCEPT ![c].fetch[f] = <<pending[c].fetch[f][4]>>]
    /\ UNCHANGED <<history, baselineTps, knownPrograms, allocated, outcome, held, flagged>>

MaxSourceSnapshots == 1

\* the program identifiers of the instructions of a block, in order
InstructionLists == { <<"Y", "X", "X">> }

NextSource ==
    \E c \in Callers :
        \/ TakeSnapshotStart(c, MaxSourceSnapshots)
        \/ \E stats \in RingStats : StatsResolves(c, stats)
        \/ \E f \in SamplingFetches, currentSlot \in CurrentSlots :
              GetSlotResolves(c, f, currentSlot)
        \/ \E f \in SamplingFetches : HeightThrows(c, f)
        \/ \E f \in SamplingFetches : HeightMissing(c, f)
        \/ \E numFailed \in {0, 20} : BlockFetched(c, 30, numFailed)
        \/ \E instructions \in InstructionLists : ParsedBlockFetched(c, instructions)
        \/ \E f \in SamplingFetches : SamplingReturns(c, f)
        \/ \E f \in Fetches : FetchRejects(c, f)
        \/ TakeSnapshotFinish(c)

SpecSource == Init /\ [][NextSource]_vars

\* what getRecentBlockProduction has collected: at most sampled records, one
\* per sampled height at most, highest height first
DescendingHeights(records, currentSlot, sampled) ==
    /\ Len(records) <= sampled
    /\ \A i \in DOMAIN records :
          /\ records[i].slot <= currentSlot
          /\ records[i].slot > currentSlot - sampled
    /\ \A i, j \in DOMAIN records : i < j => records[i].slot > records[j].slot

\* C24: while a window of heights is sampled, a height that is unavailable or
\* whose fetch throws is left out and sampling goes on with the next height:
\* a fetch that has obtained the current height never rejects, it keeps what
\* it has collected and resolves with at most NumBlocks records in descending
\* height order, possibly none.  A fetch rejects only in place of obtaining
\* the current height, and that step makes takeSnapshot fail.
C24_UnavailableHeightsAreSkipped ==
    [][\A c \in AllCallers : \A f \in SamplingFetches :
          LET slot == pending[c].fetch[f]
              next == pending'[c].fetch[f]
          IN  /\ (pending[c].active /\ Sampling(slot)) =>
                    \/ next = slot
                    \/ /\ Sampling(next)
                       /\ pending'[c].active
                       /\ next[2] = slot[2]
                       /\ next[3] = slot[3] + 1
                       /\ next[3] <= NumBlocks
                       /\ next[4] = slot[4] \/ Len(next[4]) >= Len(slot[4])
                    \/ /\ Resolved(next)
                       /\ slot[3] = NumBlocks
                       /\ next[1] = slot[4]
                       /\ pending'[c].active
              /\ (Sampling(next) /\ f = "getRecentBlockProduction") =>
                    /\ DescendingHeights(next[4], next[2], next[3])
                    /\ (pending[c].active /\ Sampling(slot)) =>
                          SubSeq(next[4], 1, Len(slot[4])) = slot[4]
              /\ (Resolved(next) /\ f = "getRecentBlockProduction") =>
                    /\ Len(next[1]) <= NumBlocks
                    /\ \A i, j \in DOMAIN next[1] :
                          i < j => next[1][i].slot > next[1][j].slot
              /\ (Rejected(next) /\ ~Rejected(slot)) =>
                    /\ slot = <<>>
                    /\ pending[c].active
                    /\ ~pending'[c].active
                    /\ outcome'[c] = Rejection(f)
                    /\ UNCHANGED engine]_vars

\* the first height was unavailable to both fetches and the second one to
\* getTopProgramsFromRecentBlocks as well: one record, an empty map, and the
\* snapshot was returned
C24_Witness ==
    /\ outcome["c1"].status = "ok"
    /\ allocated = 1
    /\ Len(pending["c1"].fetch["getRecentBlockProduction"][1]) = 1
    /\ pending["c1"].fetch["getRecentBlockProduction"][1][1].slot = 9
    /\ pending["c1"].fetch["getTopProgramsFromRecentBlocks"] = <<(<<>>)>>
    /\ outcome["c1"].snapshot.blockSummary.blocksAnalyzed = 1
    /\ outcome["c1"].snapshot.topPrograms = <<>>

----------------------------------------------------------------------------
(* Failed calls *)

\* the call of c ends with an error in this step
Fails(c) == pending[c].active /\ outcome'[c].status = "err"

\* C25: a takeSnapshot that fails leaves the history, the baseline and the
\* known identifiers as they were when it started: no step of a call other
\* than its successful end changes them.  What a successful call returns and
\* leaves behind is determined by the engine state at its end and by what it
\* fetched, so that it is the same with or without failed calls before it.
C25_FailedCallChangesNothing ==
    [][/\ \A c \in AllCallers : Fails(c) => UNCHANGED <<engine, allocated>>
       /\ (\A c \in AllCallers : ~Succeeds(c)) => UNCHANGED <<engine, allocated>>
       /\ \A c \in AllCallers : Succeeds(c) =>
             LET summary == summarizeBlocks(FetchedBlocks(c))
             IN  /\ outcome'[c].snapshot.anomalies =
                      detectAnomalies(FetchedStats(c), summary,
                                      rankPrograms(FetchedCounts(c)), FetchedCounts(c))
                 /\ history' = pushHistory(history,
                                  [ref |-> allocated + 1,
                                   tps |-> FetchedStats(c).tps,
                                   txCount |-> summary.totalTransactions,
                                   successRate |-> summary.successRate,
                                   programCounts |-> FetchedCounts(c)])
                 /\ baselineTps' = updateBaseline(baselineTps, FetchedStats(c).tps)
                 /\ knownPrograms' = trackKnown(knownPrograms, FetchedCounts(c))]_vars

\* after two snapshots at 100 a call fetched a throughput of 350 and Y, and
\* failed on its blocks: two entries, baseline 100, Y unknown
C25_Witness ==
    /\ outcome["c1"].status = "err"
    /\ outcome["c1"].error = "getRecentBlockProduction"
    /\ pending["c1"].fetch["getNetworkStats"] = <<[tps |-> 350]>>
    /\ Resolved(pending["c1"].fetch["getTopProgramsFromRecentBlocks"])
    /\ "Y" \in Keys(pending["c1"].fetch["getTopProgramsFromRecentBlocks"][1])
    /\ allocated = 2
    /\ Len(history) = 2
    /\ baselineTps = Num(100)
    /\ knownPrograms = {"X"}

----------------------------------------------------------------------------
(* Known identifiers and the history *)

\* every identifier of a retained history entry is known
HistoryKeysKnown ==
    \A i \in DOMAIN history : Keys(history[i].programCounts) \subseteq knownPrograms

----------------------------------------------------------------------------
(* Concurrent calls on one engine *)

\* C27: with several takeSnapshot calls pending on one engine, the end of a
\* call, from the evaluation of the rules to the last state update, is one
\* step: its anomalies are the rules on the state as the other calls have left
\* it by then, its data point goes last in the history, ahead of it the
\* entries that were there, in their order, and no other call's position or
\* result changes in that step; steps that are not the successful end of a
\* call change no engine state.  Under every interleaving the history holds at
\* most 100 entries and a non-null baseline stays non-null.  Entries are in
\* the order in which the calls end, whichever started first.
C27_CallsEndAtomically ==
    [][/\ Len(history) <= maxHistoryLength
       /\ Len(history') <= maxHistoryLength
       /\ baselineTps # NULL => baselineTps' # NULL
       /\ (\A c \in AllCallers : ~Succeeds(c)) => UNCHANGED engine
       /\ \A c \in AllCallers : Succeeds(c) =>
             LET kept == IF Len(history) < maxHistoryLength THEN history
                         ELSE Tail(history)
                 last == history'[Len(history')]
             IN  /\ outcome'[c].snapshot.anomalies =
                      detectAnomalies(FetchedStats(c), summarizeBlocks(FetchedBlocks(c)),
                                      rankPrograms(FetchedCounts(c)), FetchedCounts(c))
                 /\ Len(history') = Len(kept) + 1
                 /\ SubSeq(history', 1, Len(kept)) = kept
                 /\ last.ref = allocated + 1
                 /\ last.tps = FetchedStats(c).tps
                 /\ last.programCounts = FetchedCounts(c)
                 /\ \A i \in DOMAIN kept : kept[i].ref < last.ref
                 /\ baselineTps' = updateBaseline(baselineTps, FetchedStats(c).tps)
                 /\ knownPrograms' = knownPrograms \cup Keys(FetchedCounts(c))
                 /\ \A d \in AllCallers \ {c} :
                       pending'[d] = pending[d] /\ outcome'[d] = outcome[d]]_vars

\* the call of c2 started while the call of c1 was pending and has ended first:
\* it found X at 10, reported the surge to 35 and evicted the oldest entry;
\* the call of c1, which has fetched 35 as well, will find X at 35
C27_Witness ==
    /\ pending["c1"].active
    /\ \A f \in Fetches : Resolved(pending["c1"].fetch[f])
    /\ pending["c1"].fetch["getTopProgramsFromRecentBlocks"] = <<(<<Entry("X", 35)>>)>>
    /\ "c1" \in pending["c2"].overlaps
    /\ ~pending["c2"].active
    /\ outcome["c2"].status = "ok"
    /\ Len(Got("c2", "program_surge")) = 1
    /\ Got("c2", "program_surge")[1].data.previousCount = 10
    /\ Len(history) = maxHistoryLength
    /\ allocated = maxHistoryLength + 1
    /\ history[1].ref = 2
    /\ history[maxHistoryLength].programCounts = <<Entry("X", 35)>>

====
